---- MODULE Spec2Model ----
(***************************************************************************)
(* Model of scripts/fetch_us_market.py: one run of main() fetches prices,  *)
(* fetches news, renders the report and writes index.html and the dated    *)
(* archive file.                                                           *)
(*                                                                         *)
(* Python strings are modelled as sequences of one-character strings, so   *)
(* that strip, replace, find, slicing and lower are computed as Python     *)
(* computes them.  Floats are modelled by exact rational arithmetic on     *)
(* integers (prices in hundredths, percent changes in hundredths of a      *)
(* percent, NaN as a separate value).                                      *)
(***************************************************************************)
EXTENDS Integers, Sequences, FiniteSets, TLC

(***************************************************************************)
(* Program constants                                                       *)
(***************************************************************************)
NEWS_LIMIT == 12

NEWS_PER_SOURCE == 5

DefaultMaxChars == 220

TICKERS == <<"^GSPC", "^IXIC", "^DJI", "^VIX", "^TNX">>

TickerLabel(tk) ==
  CASE tk = "^GSPC" -> "S&P 500"
    [] tk = "^IXIC" -> "NASDAQ"
    [] tk = "^DJI"  -> "Dow Jones"
    [] tk = "^VIX"  -> "VIX"
    [] tk = "^TNX"  -> "US 10Y"

\* The two texts below are Korean in the source; they are given in translation.
REPORT_TITLE == "US market close summary & top news"

DISCLAIMER == "For education/information only; not investment advice."

(***************************************************************************)
(* Bounds of the model                                                     *)
(***************************************************************************)
MaxLen == 5

MaxEntries == 6

MaxRows == 3

MaxRuns == 3

(***************************************************************************)
(* Python values                                                           *)
(***************************************************************************)
\* A value that is not a str (and is truthy): calling .strip() on it raises.
NonStr == <<"<non-str>">>

\* Floats: a number (here an integer count of hundredths) or not-a-number.
NaN == [nan |-> TRUE, v |-> 0]

Num(x) == [nan |-> FALSE, v |-> x]

Whitespace == {" ", "\n"}

Min(a, b) == IF a <= b THEN a ELSE b

Abs(x) == IF x < 0 THEN -x ELSE x

\* Python truthiness of a str (or of the non-str value).
Truthy(v) == v # <<>>

\* a or b
PyOr(a, b) == IF Truthy(a) THEN a ELSE b

\* dict.get(key, default)
Get(d, key, default) == IF key \in DOMAIN d THEN d[key] ELSE default

RECURSIVE LStrip(_)
LStrip(s) ==
  IF s # <<>> /\ Head(s) \in Whitespace THEN LStrip(Tail(s)) ELSE s

RECURSIVE RStrip(_)
RStrip(s) ==
  IF s # <<>> /\ s[Len(s)] \in Whitespace
    THEN RStrip(SubSeq(s, 1, Len(s) - 1))
    ELSE s

\* str.strip()
strip(s) == RStrip(LStrip(s))

StartsWith(s, p) == Len(s) >= Len(p) /\ SubSeq(s, 1, Len(p)) = p

\* str.replace(old, new): one left-to-right pass over non-overlapping matches.
RECURSIVE replace(_, _, _)
replace(s, old, new) ==
  IF s = <<>> THEN <<>>
  ELSE IF StartsWith(s, old)
    THEN new \o replace(SubSeq(s, Len(old) + 1, Len(s)), old, new)
    ELSE <<Head(s)>> \o replace(Tail(s), old, new)

\* str.find(sub): lowest 0-based index of sub in s, or -1.
find(s, sub) ==
  LET hits == {i \in 0..(Len(s) - Len(sub)) : SubSeq(s, i + 1, i + Len(sub)) = sub}
  IN IF hits = {} THEN -1 ELSE CHOOSE i \in hits : \A j \in hits : i <= j

\* s[:n] for n >= 0
Slice(s, n) == SubSeq(s, 1, Min(n, Len(s)))

LowerChar(c) ==
  CASE c = "A" -> "a"
    [] c = "B" -> "b"
    [] c = "C" -> "c"
    [] c = "X" -> "x"
    [] OTHER -> c

\* str.lower()
lower(s) == [i \in 1..Len(s) |-> LowerChar(s[i])]

\* The whitespace normalisation of safe_first_sentence (line 46).
Normalise(text) ==
  replace(replace(strip(text), <<"\n">>, <<" ">>), <<" ", " ">>, <<" ">>)

safe_first_sentence(text, max_chars) ==
  IF ~Truthy(text) THEN <<>>
  ELSE LET s   == Normalise(text)
           dot == find(s, <<".", " ">>)
           cut == IF 0 < dot /\ dot < max_chars THEN Slice(s, dot + 1) ELSE s
       IN Slice(cut, max_chars)

(***************************************************************************)
(* Prices (lines 37-41, 53-76)                                             *)
(***************************************************************************)
\* n/d rounded to the nearest integer, ties to even (Python's round), d # 0.
RoundHalfEven(n, d) ==
  LET nn == IF d < 0 THEN -n ELSE n
      dd == Abs(d)
      q  == nn \div dd
      r  == nn - q * dd
  IN IF 2 * r < dd THEN q
     ELSE IF 2 * r > dd THEN q + 1
     ELSE IF q % 2 = 0 THEN q ELSE q + 1

\* Mutant of pct: the change is taken relative to the latest close.
pctOfLatest(a, b) ==
  IF a = 0 THEN [nan |-> TRUE, num |-> 0, den |-> 1]
  ELSE [nan |-> FALSE, num |-> (a - b) * 100, den |-> a]

\* pct(a, b) in percent, as the exact fraction num/den; a ZeroDivisionError is
\* caught and gives NaN.
pct(a, b) ==
  IF b = 0 THEN [nan |-> TRUE, num |-> 0, den |-> 1]
  ELSE [nan |-> FALSE, num |-> (a - b) * 100, den |-> b]

\* round(change, 2), in hundredths of a percent.
RoundChange(change) ==
  IF change.nan THEN NaN ELSE Num(RoundHalfEven(change.num * 100, change.den))

\* round(display_last, 2), in hundredths; closes are given in hundredths.
DisplayLast(tk, last_close) ==
  IF tk = "^TNX" THEN RoundHalfEven(last_close, 10) ELSE last_close

\* DataFrame.dropna(): rows with a missing value in any column are dropped.
dropna(df) == SelectSeq(df, LAMBDA row : ~row.Close.nan /\ ~row.Volume.nan)

\* df["Close"].tail(2).tolist()
LastTwoCloses(df) ==
  [i \in 1..2 |-> df[Len(df) - 2 + i].Close.v]

\* The body of the loop over TICKERS for one ticker (lines 58-75): the rows
\* and warnings after it.
PriceStep(data, tk, acc) ==
  IF data.kind = "multi" /\ tk \notin DOMAIN data.frames
    THEN [acc EXCEPT !.warnings = Append(@, <<"fetch", tk>>)]
  ELSE
    LET df == dropna(IF data.kind = "multi" THEN data.frames[tk] ELSE data.frame)
    IN IF Len(df) < 2 THEN acc
       ELSE LET last_two   == LastTwoCloses(df)
                prev_close == last_two[1]
                last_close == last_two[2]
                change     == pct(last_close, prev_close)
            IN [acc EXCEPT !.rows = Append(@,
                  [ticker |-> tk,
                   name   |-> TickerLabel(tk),
                   last   |-> DisplayLast(tk, last_close),
                   chgpct |-> RoundChange(change)])]

RECURSIVE PriceLoop(_, _, _)
PriceLoop(data, i, acc) ==
  IF i > Len(TICKERS) THEN acc
  ELSE PriceLoop(data, i + 1, PriceStep(data, TICKERS[i], acc))

\* fetch_prices(): raised when yf.download raises (line 55 is outside the try).
fetch_prices(data) ==
  IF data.kind = "raise"
    THEN [raised |-> TRUE, rows |-> <<>>, warnings |-> <<>>]
    ELSE LET acc == PriceLoop(data, 1, [rows |-> <<>>, warnings |-> <<>>])
         IN [raised |-> FALSE, rows |-> acc.rows, warnings |-> acc.warnings]

(***************************************************************************)
(* News (lines 78-117)                                                     *)
(***************************************************************************)
\* The yaml file is absent.
NoFile == [missing |-> TRUE]

\* A feeds-list element that is not a mapping (a bare string).
IsDict(feed) == "scalar" \notin DOMAIN feed

\* feed[key] raises no KeyError / TypeError.
HasKey(feed, key) == IsDict(feed) /\ key \in DOMAIN feed

\* .strip() is defined on the value.
IsStr(v) == v # NonStr

\* The loop over parsed.entries (lines 89-104) from entry k on: the items
\* list after it and whether an exception left it.
RECURSIVE EntryLoop(_, _, _, _, _)
EntryLoop(feed, entries, k, count, items) ==
  IF k > Len(entries) \/ count >= NEWS_PER_SOURCE
    THEN [raised |-> FALSE, items |-> items]
  ELSE
    LET e       == entries[k]
        title   == Get(e, "title", <<>>)
        link    == Get(e, "link", <<>>)
        summary == PyOr(Get(e, "summary", <<>>), Get(e, "description", <<>>))
    IN IF ~HasKey(feed, "name")
         THEN [raised |-> TRUE, items |-> items]
       ELSE IF ~Truthy(title) \/ ~Truthy(link)
         THEN EntryLoop(feed, entries, k + 1, count, items)
       ELSE IF ~IsStr(title) \/ ~IsStr(link) \/ ~IsStr(summary)
         THEN [raised |-> TRUE, items |-> items]
       ELSE EntryLoop(feed, entries, k + 1, count + 1,
              Append(items,
                [title   |-> strip(title),
                 link    |-> strip(link),
                 source  |-> feed["name"],
                 summary |-> safe_first_sentence(summary, DefaultMaxChars)]))

\* One iteration of the loop over feeds (lines 85-106).  acc holds the items,
\* the warnings printed, the URLs fetched and whether an exception escaped.
FeedStep(net, feed, acc) ==
  LET try ==
        IF ~HasKey(feed, "url")
          THEN [raised |-> TRUE, items |-> acc.items, fetched |-> acc.fetched]
        ELSE LET parsed == net[feed["url"]]
                 fetched == Append(acc.fetched, feed["url"])
             IN IF parsed.raises
                  THEN [raised |-> TRUE, items |-> acc.items, fetched |-> fetched]
                  ELSE LET r == EntryLoop(feed, parsed.entries, 1, 0, acc.items)
                       IN [raised |-> r.raised, items |-> r.items,
                           fetched |-> fetched]
  IN IF ~try.raised
       THEN [acc EXCEPT !.items = try.items, !.fetched = try.fetched]
     ELSE IF HasKey(feed, "name")
       THEN [acc EXCEPT !.items = try.items, !.fetched = try.fetched,
                        !.warnings = Append(@, <<"rss", feed["name"]>>)]
     ELSE [acc EXCEPT !.items = try.items, !.fetched = try.fetched,
                      !.raised = TRUE]

RECURSIVE FeedLoop(_, _, _, _)
FeedLoop(net, feeds, i, acc) ==
  IF i > Len(feeds) \/ acc.raised THEN acc
  ELSE FeedLoop(net, feeds, i + 1, FeedStep(net, feeds[i], acc))

\* Mutant of Dedup: the titles are compared as spelled.
RECURSIVE DedupCaseSensitive(_, _, _)
DedupCaseSensitive(items, seen, dedup) ==
  IF items = <<>> THEN dedup
  ELSE LET it  == Head(items)
           key == it.title
       IN IF key \in seen
            THEN DedupCaseSensitive(Tail(items), seen, dedup)
            ELSE DedupCaseSensitive(Tail(items), seen \cup {key}, Append(dedup, it))

\* Lines 109-116: keep the first item of each lower-cased title.
RECURSIVE Dedup(_, _, _)
Dedup(items, seen, dedup) ==
  IF items = <<>> THEN dedup
  ELSE LET it  == Head(items)
           key == lower(it.title)
       IN IF key \in seen
            THEN Dedup(Tail(items), seen, dedup)
            ELSE Dedup(Tail(items), seen \cup {key}, Append(dedup, it))

\* Mutant of Truncate: the slice is one item too long.
TruncateOneMore(dedup) == SubSeq(dedup, 1, Min(NEWS_LIMIT + 1, Len(dedup)))

\* dedup[:NEWS_LIMIT]
Truncate(dedup) == SubSeq(dedup, 1, Min(NEWS_LIMIT, Len(dedup)))

\* fetch_news(): file is the content of rss_sources.yaml, net the feeds'
\* responses by URL.
fetch_news(file, net) ==
  LET none == [raised |-> TRUE, news |-> <<>>, warnings |-> <<>>,
               fetched |-> <<>>]
  IN IF file = NoFile \/ "feeds" \notin DOMAIN file THEN none
     ELSE LET acc == FeedLoop(net, file["feeds"], 1,
                       [items |-> <<>>, warnings |-> <<>>, fetched |-> <<>>,
                        raised |-> FALSE])
          IN [raised   |-> acc.raised,
              news     |-> IF acc.raised THEN <<>>
                           ELSE Truncate(Dedup(acc.items, {}, <<>>)),
              warnings |-> acc.warnings,
              fetched  |-> acc.fetched]

(***************************************************************************)
(* Rendering (lines 119-187) and file names (lines 203-208)                *)
(***************************************************************************)
\* NOW_KST.strftime("%Y-%m-%d %H:%M KST")
RunAt(t) == <<t.date, t.time, "KST">>

\* The row of the indices table for one quote: the class is "up" when
\* chgpct >= 0 (false for NaN), the change is formatted with "%+.2f".
RenderQuote(r) ==
  [name |-> r.name,
   last |-> r.last,
   cls  |-> IF ~r.chgpct.nan /\ r.chgpct.v >= 0 THEN "up" ELSE "dn",
   chg  |-> [sign   |-> IF r.chgpct.nan \/ r.chgpct.v >= 0 THEN "+" ELSE "-",
             digits |-> IF r.chgpct.nan THEN NaN ELSE Num(Abs(r.chgpct.v))]]

\* The block of one news item: the summary line only when it is non-empty.
RenderNews(n) ==
  [href |-> n.link, text |-> n.title, badge |-> n.source,
   lines |-> IF Truthy(n.summary) THEN <<n.summary>> ELSE <<>>]

render_html(title, when_kst, rows, items) ==
  [title      |-> title,
   when       |-> when_kst,
   indices    |-> [i \in 1..Len(rows) |-> RenderQuote(rows[i])],
   news       |-> [i \in 1..Len(items) |-> RenderNews(items[i])],
   disclaimer |-> DISCLAIMER]

\* os.path.join(OUTPUT_DIR, "index.html")
IndexName == <<"index", ".html">>

\* Mutant of ArchiveName: the name carries the time of the run too.
ArchiveNamePerRun(t) == <<t.date, t.time, ".html">>

\* os.path.join(OUTPUT_DIR, NOW_KST.strftime("%Y-%m-%d") + ".html")
ArchiveName(t) == <<t.date, ".html">>

\* open(name, "w").write(content): the file is created or overwritten.
WriteFile(dir, name, content) ==
  [n \in (DOMAIN dir) \cup {name} |-> IF n = name THEN content ELSE dir[n]]

(***************************************************************************)
(* State                                                                   *)
(***************************************************************************)
VARIABLES
  rssFile,    \* scripts/rss_sources.yaml as parsed, or NoFile
  market,     \* what yf.download answers
  web,        \* what feedparser.parse answers, by URL
  now,        \* NOW_KST of the running process
  pc,         \* position of the process in main()
  dirExists,  \* the output directory exists
  site,       \* the files of the output directory, by name
  indices,    \* main's local: the quotes
  news,       \* main's local: the news items
  html,       \* main's local: the rendered page
  stderr,     \* the warnings printed
  calls,      \* the external providers queried, in order
  exitCode,   \* -1 while running, then the exit status
  runs        \* the processes that ended before this one: clock and exit status

vars == <<rssFile, market, web, now, pc, dirExists, site, indices, news, html,
          stderr, calls, exitCode, runs>>

NoHtml == [title |-> "", when |-> <<>>, indices |-> <<>>, news |-> <<>>,
           disclaimer |-> ""]

\* A fresh process at the top of main().
ProcessStart ==
  /\ pc = "start"
  /\ indices = <<>>
  /\ news = <<>>
  /\ html = NoHtml
  /\ stderr = <<>>
  /\ calls = <<>>
  /\ exitCode = -1

(***************************************************************************)
(* main() (lines 189-212)                                                  *)
(***************************************************************************)
\* Line 190: os.makedirs(OUTPUT_DIR, exist_ok=True)
MakeDirs ==
  /\ pc = "start"
  /\ dirExists' = TRUE
  /\ pc' = "prices"
  /\ UNCHANGED <<rssFile, market, web, now, site, indices, news, html, stderr,
                 calls, exitCode, runs>>

\* Line 192: indices = fetch_prices(); an exception of yf.download ends the
\* process with a traceback and status 1.
FetchPrices ==
  /\ pc = "prices"
  /\ LET r == fetch_prices(market)
     IN /\ calls' = Append(calls, "yfinance")
        /\ stderr' = stderr \o r.warnings
        /\ indices' = r.rows
        /\ pc' = IF r.raised THEN "crashed" ELSE "news"
        /\ exitCode' = IF r.raised THEN 1 ELSE exitCode
  /\ UNCHANGED <<rssFile, market, web, now, dirExists, site, news, html, runs>>

\* Line 193: news = fetch_news(); an exception that escapes it ends the
\* process with status 1.
FetchNews ==
  /\ pc = "news"
  /\ LET r == fetch_news(rssFile, web)
     IN /\ calls' = calls \o r.fetched
        /\ stderr' = stderr \o r.warnings
        /\ news' = r.news
        /\ pc' = IF r.raised THEN "crashed" ELSE "render"
        /\ exitCode' = IF r.raised THEN 1 ELSE exitCode
  /\ UNCHANGED <<rssFile, market, web, now, dirExists, site, indices, html, runs>>

\* Lines 195-200
Render ==
  /\ pc = "render"
  /\ html' = render_html(REPORT_TITLE, RunAt(now), indices, news)
  /\ pc' = "write_index"
  /\ UNCHANGED <<rssFile, market, web, now, dirExists, site, indices, news,
                 stderr, calls, exitCode, runs>>

\* Lines 203-205
WriteIndex ==
  /\ pc = "write_index"
  /\ site' = WriteFile(site, IndexName, html)
  /\ pc' = "write_archive"
  /\ UNCHANGED <<rssFile, market, web, now, dirExists, indices, news, html,
                 stderr, calls, exitCode, runs>>

\* Lines 207-212: the archive file is written and the process ends.
WriteArchive ==
  /\ pc = "write_archive"
  /\ site' = WriteFile(site, ArchiveName(now), html)
  /\ pc' = "done"
  /\ exitCode' = 0
  /\ UNCHANGED <<rssFile, market, web, now, dirExists, indices, news, html,
                 stderr, calls, runs>>

Next ==
  \/ MakeDirs
  \/ FetchPrices
  \/ FetchNews
  \/ Render
  \/ WriteIndex
  \/ WriteArchive

(***************************************************************************)
(* The environment: configuration files, provider answers, clock           *)
(***************************************************************************)
SeqsUpTo(S, n) == UNION {[1..k -> S] : k \in 0..n}

Dates == {"2024-05-01", "2024-05-02"}

Times == {"06:30", "07:10"}

Clock == [date : Dates, time : Times]

FirstClock == [date |-> "2024-05-01", time |-> "06:30"]

FeedName(f) == CASE f = 1 -> "feed1" [] f = 2 -> "feed2" [] f = 3 -> "feed3"

FeedUrl(f) == CASE f = 1 -> "url1" [] f = 2 -> "url2" [] f = 3 -> "url3"

FeedLetter(f) == CASE f = 1 -> "A" [] f = 2 -> "B" [] f = 3 -> "C"

Digit(i) ==
  CASE i = 1 -> "1" [] i = 2 -> "2" [] i = 3 -> "3" [] i = 4 -> "4"
    [] i = 5 -> "5" [] i = 6 -> "6" [] i = 7 -> "7" [] i = 8 -> "8"
    [] OTHER -> "9"

Urls == {FeedUrl(f) : f \in 1..3}

GoodFeed(f) == [name |-> FeedName(f), url |-> FeedUrl(f)]

GoodFile == [feeds |-> <<GoodFeed(1), GoodFeed(2), GoodFeed(3)>>]

\* Feed responses -------------------------------------------------------
ParseRaises == [raises |-> TRUE, entries |-> <<>>]

\* The title of entry i of feed f: the feed's own headline, or a headline all
\* feeds carry, each in its own spelling (upper case, lower case, padded).
EntryTitle(f, i, kind) ==
  IF kind = "own" THEN <<FeedLetter(f), Digit(i)>>
  ELSE CASE f = 1 -> <<"X", Digit(i)>>
         [] f = 2 -> <<"x", Digit(i)>>
         [] f = 3 -> <<" ", "X", Digit(i)>>

EntryLink(f, i) == <<"l", FeedLetter(f), Digit(i)>>

\* Odd entries carry a summary, even ones only a description.
EntryText(i) ==
  IF i % 2 = 1 THEN ("summary" :> <<"s", ".", " ", "t">>)
  ELSE ("description" :> <<"d", "\n", "e">>)

GoodEntry(f, i, kind) ==
  ("title" :> EntryTitle(f, i, kind)) @@ ("link" :> EntryLink(f, i)) @@ EntryText(i)

DefectKinds == {"noTitle", "blankTitle", "noLink", "blankLink", "nonStrTitle"}

DefectEntry(f, i, defect) ==
  CASE defect = "noTitle"     -> ("link" :> EntryLink(f, i)) @@ EntryText(i)
    [] defect = "blankTitle"  -> ("title" :> <<" ">>) @@ ("link" :> EntryLink(f, i))
                                   @@ EntryText(i)
    [] defect = "noLink"      -> ("title" :> EntryTitle(f, i, "own")) @@ EntryText(i)
    [] defect = "blankLink"   -> ("title" :> EntryTitle(f, i, "own"))
                                   @@ ("link" :> <<" ", " ">>) @@ EntryText(i)
    [] defect = "nonStrTitle" -> ("title" :> NonStr) @@ ("link" :> EntryLink(f, i))
                                   @@ EntryText(i)

\* n entries of the given kind; with a defect, the second entry is defective.
Response(f, kind, n, defect) ==
  [raises  |-> FALSE,
   entries |-> [i \in 1..n |->
                  IF defect # "none" /\ i = 2 THEN DefectEntry(f, i, defect)
                  ELSE GoodEntry(f, i, kind)]]

FeedResponses(f) ==
  {ParseRaises}
    \cup {Response(f, kind, n, "none") : kind \in {"own", "shared"}, n \in 0..MaxEntries}
    \cup {Response(f, kind, MaxEntries, d) : kind \in {"own", "shared"}, d \in DefectKinds}

QuietWeb == [u \in Urls |-> Response(1, "own", 1, "none")]

\* Market answers -------------------------------------------------------
CloseValues == {0, 4250, 4310}

Rows ==
  {[Close |-> Num(c), Volume |-> Num(1)] : c \in CloseValues}
    \cup {[Close |-> NaN, Volume |-> NaN], [Close |-> Num(4268), Volume |-> NaN]}

Histories == SeqsUpTo(Rows, MaxRows)

TickerSet == {TICKERS[i] : i \in 1..Len(TICKERS)}

BaselineHistory ==
  <<[Close |-> Num(4250), Volume |-> Num(1)], [Close |-> Num(4268), Volume |-> Num(1)]>>

MarketRaises == [kind |-> "raise"]

BaselineMarket == [kind |-> "multi", frames |-> [tk \in TickerSet |-> BaselineHistory]]

EmptyMarket == [kind |-> "flat", frame |-> <<>>]

\* The tickers of S have history h; the others have the baseline history or
\* are missing from the answer.
Markets ==
  {MarketRaises}
    \cup {[kind |-> "flat", frame |-> h] : h \in Histories}
    \cup {[kind |-> "multi",
           frames |-> [tk \in TickerSet |-> IF tk \in S THEN h ELSE BaselineHistory]]
            : h \in Histories, S \in SUBSET TickerSet}
    \cup {[kind |-> "multi", frames |-> [tk \in S |-> h]]
            : h \in Histories, S \in SUBSET TickerSet}

\* Configuration files ----------------------------------------------------
Descriptors ==
  {GoodFeed(1), GoodFeed(2), [name |-> FeedName(3)], [url |-> FeedUrl(3)],
   [scalar |-> "url3"]}

Files ==
  {NoFile, [sources |-> <<GoodFeed(1)>>]}
    \cup {[feeds |-> fs] : fs \in SeqsUpTo(Descriptors, 2)}

SmallResponses(f) ==
  {ParseRaises, [raises |-> FALSE, entries |-> <<>>], Response(f, "own", 1, "none"),
   Response(f, "own", 2, "nonStrTitle")}

(***************************************************************************)
(* Specifications                                                          *)
(***************************************************************************)
InitEnv(files, markets, webs, clocks) ==
  /\ rssFile \in files
  /\ market \in markets
  /\ web \in webs
  /\ now \in clocks
  /\ ProcessStart
  /\ dirExists = FALSE
  /\ site = << >>
  /\ runs = <<>>

\* One run under any configuration file and failing providers.
Init ==
  InitEnv(Files, {MarketRaises, EmptyMarket, BaselineMarket},
          {w \in [Urls -> UNION {SmallResponses(f) : f \in 1..3}] :
             \A f \in 1..3 : w[FeedUrl(f)] \in SmallResponses(f)},
          {FirstClock})

Spec == Init /\ [][Next]_vars

\* One run over three feeds answering anything of FeedResponses.
InitNews ==
  InitEnv({GoodFile}, {BaselineMarket},
          {[u \in Urls |-> IF u = "url1" THEN r1 ELSE IF u = "url2" THEN r2 ELSE r3]
             : r1 \in FeedResponses(1), r2 \in FeedResponses(2), r3 \in FeedResponses(3)},
          {FirstClock})

SpecNews == InitNews /\ [][Next]_vars

\* One run over any market answer of Markets.
InitPrices == InitEnv({GoodFile}, Markets, {QuietWeb}, {FirstClock})

SpecPrices == InitPrices /\ [][Next]_vars

\* One run over one feed with one entry whose summary is any short text.
Alphabet == {" ", "\n", ".", "a"}

Texts == SeqsUpTo(Alphabet, MaxLen)

TextEntry(text) == ("title" :> <<"T">>) @@ ("link" :> <<"l">>) @@ ("summary" :> text)

InitExcerpt ==
  InitEnv({[feeds |-> <<GoodFeed(1)>>]}, {BaselineMarket},
          {[u \in Urls |-> [raises |-> FALSE, entries |-> <<TextEntry(t)>>]] : t \in Texts},
          {FirstClock})

SpecExcerpt == InitExcerpt /\ [][Next]_vars

\* A sequence of runs (processes), each at its own date and time.
NextRun ==
  /\ pc \in {"done", "crashed"}
  /\ Len(runs) + 1 < MaxRuns
  /\ runs' = Append(runs, [now |-> now, exitCode |-> exitCode])
  /\ now' \in Clock
  /\ market' \in {MarketRaises, EmptyMarket, BaselineMarket}
  /\ pc' = "start"
  /\ indices' = <<>>
  /\ news' = <<>>
  /\ html' = NoHtml
  /\ stderr' = <<>>
  /\ calls' = <<>>
  /\ exitCode' = -1
  /\ UNCHANGED <<rssFile, web, dirExists, site>>

InitArchive ==
  InitEnv({[feeds |-> <<GoodFeed(1)>>]}, {MarketRaises, EmptyMarket, BaselineMarket},
          {QuietWeb}, Clock)

NextArchive == Next \/ NextRun

SpecArchive == InitArchive /\ [][NextArchive]_vars

(***************************************************************************)
(* Properties                                                              *)
(***************************************************************************)
\* fetch_prices has returned to main.
AfterPrices == pc \in {"news", "render", "write_index", "write_archive", "done"}

\* fetch_news has returned to main.
AfterNews == pc \in {"render", "write_index", "write_archive", "done"}

\* The items collected from all feeds, in feed-iteration order, before the
\* duplicates are removed.
Collected ==
  FeedLoop(web, rssFile["feeds"], 1,
           [items |-> <<>>, warnings |-> <<>>, fetched |-> <<>>, raised |-> FALSE]).items

SameIgnoringCase(a, b) ==
  /\ Len(a) = Len(b)
  /\ \A i \in 1..Len(a) :
       a[i] = b[i] \/ LowerChar(a[i]) = b[i] \/ a[i] = LowerChar(b[i])

FromFeed(f) == {k \in 1..Len(news) : news[k].source = FeedName(f)}

\* C1: the list fetch_news returns has no two items whose titles are equal
\* ignoring case, and each item in it is the first collected item, in
\* feed-iteration order, with its title.
C1_NoDuplicateTitlesFirstKept ==
  AfterNews =>
    LET all == Collected
    IN /\ \A i, j \in 1..Len(news) :
            i < j => ~SameIgnoringCase(news[i].title, news[j].title)
       /\ \A k \in 1..Len(news) :
            \E p \in 1..Len(all) :
              /\ all[p] = news[k]
              /\ \A q \in 1..(p - 1) :
                   ~SameIgnoringCase(all[q].title, news[k].title)

\* Two feeds carried the same headline in different spellings; the first is in
\* the list and the second is not.
C1_Witness ==
  /\ AfterNews
  /\ LET all == Collected
     IN \E p, q \in 1..Len(all) :
          /\ p < q
          /\ all[p].title # all[q].title
          /\ SameIgnoringCase(all[p].title, all[q].title)
          /\ \E k \in 1..Len(news) : news[k] = all[p]
          /\ \A k \in 1..Len(news) : news[k] # all[q]

\* C2: the list fetch_news returns has at most NEWS_LIMIT items, at most
\* NEWS_PER_SOURCE of them from any one feed.
C2_CapsHold ==
  AfterNews =>
    /\ Len(news) <= NEWS_LIMIT
    /\ \A f \in 1..3 : Cardinality(FromFeed(f)) <= NEWS_PER_SOURCE

\* More distinct headlines were collected than the list may hold, and a feed
\* that offered more than its share, one entry of it skipped, gave its share.
C2_Witness ==
  /\ AfterNews
  /\ Len(news) = NEWS_LIMIT
  /\ Len(Dedup(Collected, {}, <<>>)) > NEWS_LIMIT
  /\ \E f \in 1..3 :
       LET entries == web[FeedUrl(f)].entries
       IN /\ Len(entries) > NEWS_PER_SOURCE
          /\ \E k \in 1..Len(entries) : "link" \notin DOMAIN entries[k]
          /\ Cardinality(FromFeed(f)) = NEWS_PER_SOURCE

\* Fetching or reading feed f raises an exception.
FeedFails(f) ==
  \/ web[FeedUrl(f)].raises
  \/ EntryLoop(GoodFeed(f), web[FeedUrl(f)].entries, 1, 0, <<>>).raised

\* C4: a feed that fails while it is processed leaves no item in the list, a
\* warning is printed for it, and every later feed is still fetched.
C4_FailedFeedIsSkippedWhole ==
  AfterNews =>
    \A f \in 1..3 :
      FeedFails(f) =>
        /\ FromFeed(f) = {}
        /\ \E w \in 1..Len(stderr) : stderr[w] = <<"rss", FeedName(f)>>
        /\ \A g \in (f + 1)..3 : \E c \in 1..Len(calls) : calls[c] = FeedUrl(g)

\* C5: every item of the list has a non-empty title and a non-empty link.
C5_TitleAndLinkNonEmpty ==
  AfterNews =>
    \A k \in 1..Len(news) : news[k].title # <<>> /\ news[k].link # <<>>

(***************************************************************************)
\* The answer of the provider for ticker tk.
Frame(tk) ==
  IF market.kind = "flat" THEN market.frame
  ELSE IF tk \in DOMAIN market.frames THEN market.frames[tk] ELSE <<>>

\* The positions of the rows of h with no missing value.
ValidRows(h) == {i \in 1..Len(h) : ~h[i].Close.nan /\ ~h[i].Volume.nan}

Largest(S) == CHOOSE i \in S : \A j \in S : j <= i

TickerPos(tk) == CHOOSE p \in 1..Len(TICKERS) : TICKERS[p] = tk

\* c, in hundredths of a percent, is (last/prev - 1)*100 rounded to two
\* decimals; a zero prev gives not-a-number.
IsRoundedChange(c, prev, last) ==
  IF prev = 0 THEN c.nan
  ELSE ~c.nan /\ 2 * Abs(c.v * prev - 10000 * (last - prev)) <= Abs(prev)

\* C6: a ticker with at least two rows left after the rows with missing data
\* are dropped has exactly one quote, whose change is computed from its two most
\* recent valid closes; a ticker with fewer has none; the quotes are in the
\* order of TICKERS.
C6_QuotesFromLastTwoValidCloses ==
  AfterPrices =>
    /\ \A p \in 1..Len(TICKERS) :
         LET tk     == TICKERS[p]
             h      == Frame(tk)
             V      == ValidRows(h)
             quotes == {q \in 1..Len(indices) : indices[q].ticker = tk}
         IN IF Cardinality(V) >= 2
              THEN /\ Cardinality(quotes) = 1
                   /\ LET i2 == Largest(V)
                          i1 == Largest(V \ {i2})
                      IN \A q \in quotes :
                           IsRoundedChange(indices[q].chgpct, h[i1].Close.v,
                                           h[i2].Close.v)
              ELSE quotes = {}
    /\ \A q1, q2 \in 1..Len(indices) :
         q1 < q2 => TickerPos(indices[q1].ticker) < TickerPos(indices[q2].ticker)

\* A ticker whose latest row is dropped has a quote with a non-zero change
\* from the two rows before it, while another ticker has no quote.
C6_Witness ==
  /\ AfterPrices
  /\ market.kind = "multi"
  /\ \E q \in 1..Len(indices) :
       LET h == Frame(indices[q].ticker)
       IN /\ Len(h) = 3
          /\ ValidRows(h) = {1, 2}
          /\ ~indices[q].chgpct.nan
          /\ indices[q].chgpct.v # 0
  /\ Len(indices) >= 2
  /\ Len(indices) < Len(TICKERS)

(***************************************************************************)
\* The process ends successfully in this step.
RunSucceeds == pc = "write_archive" /\ pc' = "done"

\* C7: when a run ends successfully, index.html and the archive file of the
\* run's date both hold the page of this run, the archive files of the other
\* dates are as they were, and no file is added but the archive of that date;
\* each date has at most one archive file.
C7_IndexAndArchiveHoldLastRun ==
  [][/\ RunSucceeds =>
          /\ site'[IndexName] = html
          /\ site'[ArchiveName(now)] = html
          /\ DOMAIN site' = (DOMAIN site) \cup {ArchiveName(now)}
          /\ \A n \in DOMAIN site :
               n \notin {IndexName, ArchiveName(now)} => site'[n] = site[n]
     /\ \A d \in Dates : Cardinality({n \in DOMAIN site' : n # IndexName /\ n[1] = d}) <= 1
    ]_vars

\* A run ended successfully after an earlier successful run of the same date
\* and one of another date: two archive files, the one of this date holding
\* this run's page.
C7_Witness ==
  /\ pc = "done"
  /\ \E i, j \in 1..Len(runs) :
       /\ runs[i].exitCode = 0
       /\ runs[i].now.date = now.date
       /\ runs[i].now.time # now.time
       /\ runs[j].exitCode = 0
       /\ runs[j].now.date # now.date
  /\ Cardinality(DOMAIN site) = 3
  /\ site[IndexName] = html
  /\ site[ArchiveName(now)] = html

(***************************************************************************)
WellFormed(file) ==
  /\ file # NoFile
  /\ "feeds" \in DOMAIN file
  /\ \A i \in 1..Len(file["feeds"]) :
       HasKey(file["feeds"][i], "name") /\ HasKey(file["feeds"][i], "url")

MarketFails == market.kind = "raise" \/ market = EmptyMarket

\* C3: when the market-data provider fails (the feed list being well-formed, so
\* that nothing else can end the run), the process does not end with an error.
C3_MarketFailureNotFatal ==
  (MarketFails /\ WellFormed(rssFile)) => pc # "crashed" /\ exitCode # 1

\* C8: with a missing or malformed feed list (the market-data provider
\* answering), no provider is queried, no file is written and the process does
\* not end successfully.
C8_BadConfigFatalAtStartup ==
  (~WellFormed(rssFile) /\ market.kind # "raise") =>
    calls = <<>> /\ site = << >> /\ pc # "done"

(***************************************************************************)
\* The text whose excerpt is item 1's summary.
GivenText == web[FeedUrl(1)].entries[1]["summary"]

\* What C9 says safe_first_sentence returns for text.
FirstSentenceAsClaimed(text) ==
  IF text = <<>> THEN <<>>
  ELSE LET s   == Normalise(text)
           dot == find(s, <<".", " ">>)
       IN IF 0 <= dot /\ dot < DefaultMaxChars THEN Slice(s, dot + 1)
          ELSE Slice(s, DefaultMaxChars)

\* C9: the summary is the normalised text cut after the first ". " when that
\* lies before the budget, and else its first 220 characters.
C9_FirstSentenceOrBudget ==
  (AfterNews /\ Len(news) = 1) =>
    /\ news[1].summary = FirstSentenceAsClaimed(GivenText)
    /\ Len(news[1].summary) <= DefaultMaxChars

\* C10: the summary has no newline and no two consecutive spaces.
C10_WhitespaceCollapsed ==
  (AfterNews /\ Len(news) = 1) =>
    LET s == news[1].summary
    IN /\ \A i \in 1..Len(s) : s[i] # "\n"
       /\ \A i \in 1..(Len(s) - 1) : ~(s[i] = " " /\ s[i + 1] = " ")

====
